---- MODULE Spec2Model ----
(***************************************************************************)
(* A model of ugdoppler (src/ugdoppler/ugdoppler.py) and of precess        *)
(* (src/ugdoppler/precess.py).                                             *)
(*                                                                         *)
(* Numbers.  The code computes in float64; the model computes in integers  *)
(* of fixed resolution:                                                    *)
(*   - radians are whole microradians,                                     *)
(*   - degrees are whole 1e-4 degrees (37.8732 is 378732),                 *)
(*   - hours and Julian days are whole numbers,                            *)
(*   - direction cosines, matrix entries and velocities are whole 1e-3     *)
(*     (a cosine of 1.0 is 1000, 20.0 km/s is 20000).                      *)
(* A product of two 1e-3 numbers is rounded back to 1e-3 (Mul), as a float *)
(* product is rounded back to its precision.  cos and sin are evaluated    *)
(* on a grid of 30 degrees: the argument is taken to the nearest grid      *)
(* angle, the value is that angle's cosine to 1e-3.  arctan2 and arcsin    *)
(* return the grid angle of their principal range.                         *)
(*                                                                         *)
(* Values.  An argument is a scalar (a Python float) or a one-dimensional  *)
(* numpy array: [kind |-> "scalar" | "array", v |-> <<...>>].              *)
(***************************************************************************)
EXTENDS Integers, Sequences, FiniteSets, TLC

\* Python's None is the empty tuple; a value that is present is <<value>>.
None == <<>>
Some(x) == <<x>>

\* ---------------------------------------------------------------- bounds
\* The longest array passed to ugdoppler or precess.
MaxN == 2

\* ------------------------------------------------------------ resolution
Milli == 10 ^ 3
DegUnit == 10 ^ 4

Abs(x) == IF x < 0 THEN -x ELSE x

\* a / b to the nearest integer, b > 0 (halves away from zero).
RoundDiv(a, b) ==
    IF a >= 0 THEN (2 * a + b) \div (2 * b) ELSE -((2 * (-a) + b) \div (2 * b))

\* The float product of two 1e-3 numbers.
Mul(a, b) == RoundDiv(a * b, Milli)

\* ------------------------------------------------------- numpy values
Scalar(x) == [kind |-> "scalar", v |-> <<x>>]
Array(s) == [kind |-> "array", v |-> s]

\* len(a): defined for an array only (TypeError on a float).
HasLen(a) == a.kind = "array"

\* The shape of a value: 0 stands for the shape () of a scalar.
Shape(a) == IF a.kind = "scalar" THEN 0 ELSE Len(a.v)

\* numpy's broadcast of two shapes; -1 when the shapes do not fit (ValueError).
Bcast(s, t) ==
    IF s = -1 \/ t = -1 THEN -1
    ELSE IF s = 0 THEN t
    ELSE IF t = 0 THEN s
    ELSE IF s = t THEN s
    ELSE IF s = 1 THEN t
    ELSE IF t = 1 THEN s
    ELSE -1

\* Whether a value of shape s can be stored in a row slice x[k, :] of length n.
Assignable(s, n) == s = 0 \/ s = 1 \/ s = n

\* Element i of a value under broadcasting.
At(a, i) == IF Len(a.v) = 1 THEN a.v[1] ELSE a.v[i]

\* ------------------------------------------------------- trigonometry
\* np.pi, in microradians.
pi == 3141593
\* np.pi/180., in microradians per degree (ugdoppler.py).
dtor == 17453
\* np.pi/180., in microradians per degree (precess.py).
deg_to_rad == 17453

\* d degrees (1e-4 degree units) times np.pi/180.
DegToRad(d, k) == (d \div DegUnit) * k + RoundDiv((d % DegUnit) * k, DegUnit)
\* r microradians divided by np.pi/180.
RadToDeg(r, k) == (r \div k) * DegUnit + RoundDiv((r % k) * DegUnit, k)

\* The step of the angle grid: 30 degrees.
GridRad == 30 * dtor
\* The grid index nearest to an angle in microradians.
Snap(x) == RoundDiv(x, GridRad)

CosTab == <<1000, 866, 500, 0, -500, -866, -1000, -866, -500, 0, 500, 866>>
CosIdx(k) == CosTab[(k % 12) + 1]
SinIdx(k) == CosTab[((k - 3) % 12) + 1]

\* np.cos, np.sin
cos(x) == CosIdx(Snap(x))
sin(x) == SinIdx(Snap(x))

\* np.arctan2(y, x): the angle in (-pi, pi] of the point (x, y); 0 at (0, 0).
arctan2(y, x) ==
    IF x = 0 /\ y = 0 THEN 0
    ELSE LET P(k) == x * CosIdx(k) + y * SinIdx(k)
             best == CHOOSE k \in -5 .. 6 : \A j \in -5 .. 6 : P(k) >= P(j)
         IN  best * GridRad

\* np.arcsin(z): the angle in [-pi/2, pi/2] whose sine is z.
arcsin(z) ==
    LET D(k) == Abs(z - SinIdx(k))
        best == CHOOSE k \in -3 .. 3 : \A j \in -3 .. 3 : D(k) <= D(j)
    IN  best * GridRad

\* ------------------------------------------------------------ premat
\* premat is imported by precess.py and is not among the source files.
\* It returns the rotation that takes direction cosines at equinox1 to
\* equinox2: the identity for equal equinoxes, the inverse rotation for
\* swapped ones.  On the 30 degree grid the accumulated precession is a
\* whole number of grid steps about the z axis; the FK4 and FK5 constants
\* differ by less than the grid resolves.
StepYears == 2340
PrematSteps(equinox1, equinox2, fk4) == RoundDiv(equinox2 - equinox1, StepYears)
premat(equinox1, equinox2, fk4) ==
    LET k == PrematSteps(equinox1, equinox2, fk4)
    IN  << << CosIdx(k), -SinIdx(k), 0 >>,
           << SinIdx(k), CosIdx(k), 0 >>,
           << 0, 0, 1000 >> >>

\* ----------------------------------------------------------- precess
\* A result of precess: the tuple returned, or the exception raised.
Raised(e) == [status |-> e, ra |-> <<>>, dec |-> <<>>]
Returned(ra, dec) == [status |-> "ok", ra |-> ra, dec |-> dec]

Min2(a, b) == IF a <= b THEN a ELSE b

\* npts: np.min([len(ra), len(dec)]), or 1 when either has no len().
Npts(ra, dec) == IF HasLen(ra) /\ HasLen(dec) THEN Min2(Len(ra.v), Len(dec.v)) ELSE 1

\* float(a): a Python float from a float or from an array of one element;
\* TypeError for a longer array.
FloatOK(a) == Shape(a) \in {0, 1}
Float(a) == Scalar(a.v[1])

\* a * deg_to_rad, elementwise.
TimesDegToRad(a) == [a EXCEPT !.v = [i \in DOMAIN a.v |-> DegToRad(a.v[i], deg_to_rad)]]

\* The input angles in radians: converted from degrees unless radian is set,
\* and then passed through float().
InRadians(a, radian) == IF radian THEN Float(a) ELSE TimesDegToRad(a)

\* Whether x[0,:], x[1,:] and x[2,:] can be filled from the input angles.
FillsX(ra_rad, dec_rad, npts) ==
    /\ Bcast(Shape(dec_rad), Shape(ra_rad)) # -1
    /\ Assignable(Bcast(Shape(dec_rad), Shape(ra_rad)), npts)
    /\ Assignable(Shape(dec_rad), npts)

\* Column i of x: the direction cosines of input element i.
XColumn(ra_rad, dec_rad, i) ==
    LET a == cos(At(dec_rad, i))
    IN  << Mul(a, cos(At(ra_rad, i))), Mul(a, sin(At(ra_rad, i))), sin(At(dec_rad, i)) >>

\* One column of np.dot(r, x).
DotColumn(r, col) ==
    [j \in 1 .. 3 |-> Mul(r[j][1], col[1]) + Mul(r[j][2], col[2]) + Mul(r[j][3], col[3])]

\* ra + (ra < 0.)*360.
AddTurnIfNegative(ra) == IF ra < 0 THEN ra + 360 * DegUnit ELSE ra

\* The right ascension returned for arctan2's result ra_rad.
RaOut(ra_rad, radian) ==
    IF radian THEN ra_rad ELSE AddTurnIfNegative(RadToDeg(ra_rad, deg_to_rad))

\* The declination returned for arcsin's result dec_rad.
DecOut(dec_rad, radian) ==
    IF radian THEN dec_rad ELSE RadToDeg(dec_rad, deg_to_rad)

precess(ra, dec, equinox1, equinox2, FK4, radian) ==
    LET npts == Npts(ra, dec)
        ra_rad == InRadians(ra, radian)
        dec_rad == InRadians(dec, radian)
        r == premat(equinox1, equinox2, FK4)
        x2 == [i \in 1 .. npts |-> DotColumn(r, XColumn(ra_rad, dec_rad, i))]
    IN  IF radian /\ ~(FloatOK(ra) /\ FloatOK(dec)) THEN Raised("TypeError")
        ELSE IF ~FillsX(ra_rad, dec_rad, npts) THEN Raised("ValueError")
        ELSE Returned([i \in 1 .. npts |-> RaOut(arctan2(x2[i][2], x2[i][1]), radian)],
                      [i \in 1 .. npts |-> DecOut(arcsin(x2[i][3]), radian)])

\* ------------------------------------------------- ugdoppler: collaborators
\* baryvel and radiolab.getLST are imported by ugdoppler.py and are not among
\* the source files.  Both are pure functions of their arguments.

\* baryvel(jd, 2000.): the heliocentric and the barycentric velocity of the
\* Earth, about 30 km/s along a direction that turns once a year.
baryvel(jd, epoch) ==
    LET k == (jd \div 30) % 12
        vvorbit == << -30 * SinIdx(k), 28 * CosIdx(k), 12 * CosIdx(k) >>
    IN  [vvorbit |-> vvorbit,
         velb |-> << vvorbit[1] + 10, vvorbit[2] - 12, vvorbit[3] + 5 >>]

\* The sidereal time, in hours, of one Julian day at east longitude lon.
LST1(jd, lon) == (2 * (jd % 12) + RoundDiv(lon, 15 * DegUnit)) % 24

\* getLST(juldate=julday, lon=lon): elementwise over julday.
getLST(juldate, lon) == [juldate EXCEPT !.v = [i \in DOMAIN juldate.v |-> LST1(juldate.v[i], lon)]]

\* ------------------------------------------------- ugdoppler: sections
\* nin: len(ra), or 1 when ra has no len().
Nin(ra) == IF HasLen(ra) THEN Len(ra.v) ELSE 1

\* rasource = ra*15.*dtor and decsource = dec*dtor, elementwise.
RaSource(ra) == [ra EXCEPT !.v = [i \in DOMAIN ra.v |-> DegToRad(ra.v[i] * 15 * DegUnit, dtor)]]
DecSource(dec) == [dec EXCEPT !.v = [i \in DOMAIN dec.v |-> DegToRad(dec.v[i], dtor)]]

\* Whether the three rows of xxsource can be filled: the shapes of decsource
\* and rasource broadcast, and the products fit a row of nin elements.
FillsXXSource(ra, dec, nin) ==
    /\ Bcast(Shape(dec), Shape(ra)) # -1
    /\ Assignable(Bcast(Shape(dec), Shape(ra)), nin)
    /\ Assignable(Shape(dec), nin)

\* xxsource[:, i]: the direction cosines of sample i.
XXSourceColumn(ra, dec, i) ==
    LET rasource == At(RaSource(ra), i)
        decsource == At(DecSource(dec), i)
    IN  << Mul(cos(decsource), cos(rasource)),
           Mul(cos(decsource), sin(rasource)),
           sin(decsource) >>

XXSource(ra, dec, nin) == [i \in 1 .. nin |-> XXSourceColumn(ra, dec, i)]

\* np.zeros(n)
Zeros(n) == [i \in 1 .. n |-> 0]

\* np.sum(u * w) of two 3-vectors.
Dot3(u, w) == Mul(u[1], w[1]) + Mul(u[2], w[2]) + Mul(u[3], w[3])

\* julday[NR] is defined for an array and an index below its length; a float
\* raises TypeError, an index past the end IndexError.  NR counts from 1 here
\* and from 0 in the code.
JuldayError(julday, NR) ==
    IF ~HasLen(julday) THEN "TypeError"
    ELSE IF NR > Len(julday.v) THEN "IndexError"
    ELSE ""
\* A slip: the Julian day of the first sample is used on every pass.
JuldayFirst(julday, NR) == julday.v[1]
JuldayAt(julday, NR) == julday.v[NR]

\* pvorbit_helio[NR] and pvorbit_bary[NR] of one pass of the loop.
PvorbitHelio(julday, xxsource, NR) == Dot3(baryvel(JuldayAt(julday, NR), 2000).vvorbit, xxsource[NR])
PvorbitBary(julday, xxsource, NR) == Dot3(baryvel(JuldayAt(julday, NR), 2000).velb, xxsource[NR])

\* The LSR apex, ra = 18h and dec = 30 degrees, in radians, precessed from
\* 1900 to 2000.
LsrApex ==
    precess(Scalar(RoundDiv(2 * pi * 18, 24)), Scalar(DegToRad(30 * DegUnit, dtor)),
            1900, 2000, FALSE, TRUE)

\* xxlsr, with cos(np.pi + ralsr_rad) in its first component.
xxlsr ==
    LET ralsr_rad == LsrApex.ra[1]
        declsr_rad == LsrApex.dec[1]
    IN  << Mul(cos(declsr_rad), cos(pi + ralsr_rad)),
           Mul(cos(declsr_rad), sin(ralsr_rad)),
           sin(declsr_rad) >>

\* vvlsr = 20.*xxlsr
vvlsr == [k \in 1 .. 3 |-> 20 * xxlsr[k]]

\* pvlsr[NR] = np.sum(vvlsr*xxsource[:, NR]) for every NR.
Pvlsr(xxsource, nin) == [i \in 1 .. nin |-> Dot3(vvlsr, xxsource[i])]

\* Campbell Hall.
northlat == 378732
westlong == 1222573

\* Python's truth value of a keyword argument: None and 0 are false.
Truthy(o) == o # None /\ o[1] # 0

\* obspos_deg: [nlat, wlong] "if nlat and wlong", else Campbell Hall.
ObsposDeg(nlat, wlong) ==
    IF Truthy(nlat) /\ Truthy(wlong) THEN << nlat[1], wlong[1] >> ELSE << northlat, westlong >>

\* The shape of pvspin: decsource, lst_mean and ra broadcast together.
PvspinShape(ra, dec, lst_mean) == Bcast(Shape(dec), Bcast(Shape(lst_mean), Shape(ra)))

\* One element of pvspin.
Pvspin1(lat, ra, dec, lst_mean, i) ==
    Mul(Mul(Mul(-465, cos(DegToRad(lat, dtor))),
            cos(At(DecSource(dec), i))),
        sin(DegToRad((At(lst_mean, i) - At(ra, i)) * 15 * DegUnit, dtor)))

Pvspin(lat, ra, dec, lst_mean) ==
    LET s == PvspinShape(ra, dec, lst_mean)
    IN  IF s = 0 THEN Scalar(Pvspin1(lat, ra, dec, lst_mean, 1))
        ELSE Array([i \in 1 .. s |-> Pvspin1(lat, ra, dec, lst_mean, i)])

\* Whether the four rows of vtotal, of nin elements each, can be filled.
FillsVtotal(pvspin, nin) == Assignable(Shape(pvspin), nin)

\* A slip: the LSR row leaves out the solar motion.
VtotalRowsNoLsr(pvspin, pvorbit_helio, pvorbit_bary, pvlsr, nin) ==
    << [i \in 1 .. nin |-> -At(pvspin, i)],
       [i \in 1 .. nin |-> -At(pvspin, i) - pvorbit_helio[i]],
       [i \in 1 .. nin |-> -At(pvspin, i) - pvorbit_bary[i]],
       [i \in 1 .. nin |-> -At(pvspin, i) - pvorbit_bary[i]] >>

\* The four rows of vtotal.
VtotalRows(pvspin, pvorbit_helio, pvorbit_bary, pvlsr, nin) ==
    << [i \in 1 .. nin |-> -At(pvspin, i)],
       [i \in 1 .. nin |-> -At(pvspin, i) - pvorbit_helio[i]],
       [i \in 1 .. nin |-> -At(pvspin, i) - pvorbit_bary[i]],
       [i \in 1 .. nin |-> -At(pvspin, i) - pvorbit_bary[i] - pvlsr[i]] >>

\* 2.99792458e5 km/s.
clight == 299792

\* vtotal/(2.99792458e5) "if light": a velocity in 1e-3 km/s becomes a
\* fraction of c in 1e-6.
OverC(v) == RoundDiv(v * Milli, clight)
Light(vtotal, light) ==
    IF light THEN [r \in 1 .. 4 |-> [i \in DOMAIN vtotal[r] |-> OverC(vtotal[r][i])]]
    ELSE vtotal

\* The matrix ugdoppler returns for arguments on which no statement raises.
ugdoppler(ra, dec, julday, nlat, wlong, light) ==
    LET nin == Nin(ra)
        xxsource == XXSource(ra, dec, nin)
        pvorbit_helio == [NR \in 1 .. nin |-> PvorbitHelio(julday, xxsource, NR)]
        pvorbit_bary == [NR \in 1 .. nin |-> PvorbitBary(julday, xxsource, NR)]
        pvlsr == Pvlsr(xxsource, nin)
        obspos_deg == ObsposDeg(nlat, wlong)
        lst_mean == getLST(julday, -obspos_deg[2])
        pvspin == Pvspin(obspos_deg[1], ra, dec, lst_mean)
    IN  Light(VtotalRows(pvspin, pvorbit_helio, pvorbit_bary, pvlsr, nin), light)

\* ------------------------------------------------------------- state
VARIABLES
    pc,       \* where the ugdoppler call stands
    args,     \* the arguments of the ugdoppler call
    loc,      \* ugdoppler's local variables
    calls,    \* the collaborators invoked so far, in order
    printed,  \* whether the Campbell Hall notice was printed
    ret,      \* the value returned to the caller, None before
    err,      \* the exception raised, "" if none
    p_pc,     \* where the precess call stands
    p_args,   \* the arguments of the precess call
    p_ret     \* the result of the precess call

vars == << pc, args, loc, calls, printed, ret, err, p_pc, p_args, p_ret >>

\* ------------------------------------------------------------ inputs
RaHours == {6, 20}
DecDegs == {-30 * DegUnit, 60 * DegUnit}
JulDays == {2451545, 2451640}

\* (nlat, wlong) as the caller gives them.
Observers ==
    { << None, None >>,
      << Some(0), Some(120 * DegUnit) >>,
      << Some(60 * DegUnit), Some(0) >>,
      << Some(60 * DegUnit), Some(120 * DegUnit) >>,
      << Some(60 * DegUnit), None >> }

SeqsUpTo(S, n) == UNION {[1 .. k -> S] : k \in 1 .. n}
Scalars(S) == {Scalar(x) : x \in S}
Arrays(S) == {Array(q) : q \in SeqsUpTo(S, MaxN)}

\* precess is called with right ascensions and declinations on the grid, and
\* short of the poles: cos(dec) at a pole is a rounding residue in float64,
\* which the resolution of the model does not hold.
PRaDegs == {30 * DegUnit, 210 * DegUnit, 300 * DegUnit}
PDecDegs == {-30 * DegUnit, 60 * DegUnit}
Equinoxes == {1900, 2000, 4340}

\* The same angle in the unit of the call.
InUnit(a, radian) == IF radian THEN TimesDegToRad(a) ELSE a

NoArgs ==
    [ra |-> Array(<<>>), dec |-> Array(<<>>), julday |-> Array(<<>>),
     nlat |-> None, wlong |-> None, light |-> FALSE,
     obspos_deg |-> None, lst_mean |-> None]

NoLocals ==
    [nin |-> 0, xxsource |-> <<>>, pvorbit_helio |-> <<>>, pvorbit_bary |-> <<>>,
     pvlsr |-> <<>>, NR |-> 0, obspos_deg |-> <<>>, lst_mean |-> Array(<<>>),
     pvspin |-> Array(<<>>), vtotal |-> <<>>]

NoPArgs ==
    [ra |-> Array(<<>>), dec |-> Array(<<>>), equinox1 |-> 0, equinox2 |-> 0,
     FK4 |-> FALSE, radian |-> FALSE]

Init ==
    /\ pc = "idle"
    /\ args = NoArgs
    /\ loc = NoLocals
    /\ calls = <<>>
    /\ printed = FALSE
    /\ ret = None
    /\ err = ""
    /\ p_pc = "idle"
    /\ p_args = NoPArgs
    /\ p_ret = Raised("")

\* ------------------------------------------------------------ actions
\* ugdoppler(ra, dec, julday, nlat, wlong, light) is called: all three inputs
\* floats, or all three arrays of any lengths.
Call ==
    /\ pc = "idle" /\ p_pc = "idle"
    /\ \E kind \in {"scalar", "array"}, obs \in Observers, light \in BOOLEAN :
         \E ra \in IF kind = "scalar" THEN Scalars(RaHours) ELSE Arrays(RaHours),
            dec \in IF kind = "scalar" THEN Scalars(DecDegs) ELSE Arrays(DecDegs),
            julday \in IF kind = "scalar" THEN Scalars(JulDays) ELSE Arrays(JulDays) :
              args' = [ra |-> ra, dec |-> dec, julday |-> julday,
                       nlat |-> obs[1], wlong |-> obs[2], light |-> light,
                       obspos_deg |-> None, lst_mean |-> None]
    /\ pc' = "source"
    /\ UNCHANGED << loc, calls, printed, ret, err, p_pc, p_args, p_ret >>

\* Lines 66-82: nin, the direction cosines of the source, the zeroed
\* projections.
SourceSection ==
    /\ pc = "source"
    /\ LET nin == Nin(args.ra)
       IN  IF FillsXXSource(args.ra, args.dec, nin)
           THEN /\ loc' = [loc EXCEPT !.nin = nin,
                                      !.xxsource = XXSource(args.ra, args.dec, nin),
                                      !.pvorbit_helio = Zeros(nin),
                                      !.pvorbit_bary = Zeros(nin),
                                      !.pvlsr = Zeros(nin),
                                      !.NR = 1]
                /\ pc' = "orbit"
                /\ err' = err
           ELSE /\ loc' = [loc EXCEPT !.nin = nin]
                /\ pc' = "failed"
                /\ err' = "ValueError"
    /\ UNCHANGED << args, calls, printed, ret, p_pc, p_args, p_ret >>

\* Lines 88-91: one pass of the loop over the samples.
OrbitPass ==
    /\ pc = "orbit"
    /\ IF JuldayError(args.julday, loc.NR) # ""
       THEN /\ pc' = "failed"
            /\ err' = JuldayError(args.julday, loc.NR)
            /\ UNCHANGED << loc, calls >>
       ELSE /\ calls' = Append(calls, [fn |-> "baryvel",
                                       arg |-> Scalar(JuldayAt(args.julday, loc.NR))])
            /\ loc' = [loc EXCEPT
                         !.pvorbit_helio[loc.NR] = PvorbitHelio(args.julday, loc.xxsource, loc.NR),
                         !.pvorbit_bary[loc.NR] = PvorbitBary(args.julday, loc.xxsource, loc.NR),
                         !.NR = loc.NR + 1]
            /\ pc' = IF loc.NR = loc.nin THEN "lsr" ELSE "orbit"
            /\ err' = err
    /\ UNCHANGED << args, printed, ret, p_pc, p_args, p_ret >>

\* Lines 94-110: the apex is precessed, and the solar motion projected on
\* every source direction.
LsrSection ==
    /\ pc = "lsr"
    /\ calls' = Append(calls, [fn |-> "precess", arg |-> Scalar(RoundDiv(2 * pi * 18, 24))])
    /\ IF LsrApex.status = "ok"
       THEN /\ loc' = [loc EXCEPT !.pvlsr = Pvlsr(loc.xxsource, loc.nin)]
            /\ pc' = "spin"
            /\ err' = err
       ELSE /\ loc' = loc
            /\ pc' = "failed"
            /\ err' = LsrApex.status
    /\ UNCHANGED << args, printed, ret, p_pc, p_args, p_ret >>

\* Lines 113-134: the observer, the sidereal time, the spin of the Earth.
SpinSection ==
    /\ pc = "spin"
    /\ LET obspos_deg == ObsposDeg(args.nlat, args.wlong)
           lat == obspos_deg[1]
           lst_mean == getLST(args.julday, -obspos_deg[2])
       IN  /\ printed' = ~(Truthy(args.nlat) /\ Truthy(args.wlong))
           /\ calls' = Append(calls, [fn |-> "getLST", arg |-> args.julday])
           /\ IF PvspinShape(args.ra, args.dec, lst_mean) = -1
              THEN /\ loc' = [loc EXCEPT !.obspos_deg = obspos_deg, !.lst_mean = lst_mean]
                   /\ pc' = "failed"
                   /\ err' = "ValueError"
              ELSE /\ loc' = [loc EXCEPT !.obspos_deg = obspos_deg,
                                         !.lst_mean = lst_mean,
                                         !.pvspin = Pvspin(lat, args.ra, args.dec, lst_mean)]
                   /\ pc' = "combine"
                   /\ err' = err
    /\ UNCHANGED << args, ret, p_pc, p_args, p_ret >>

\* Lines 137-145: the four rows of vtotal, divided by c if light is set.
CombineSection ==
    /\ pc = "combine"
    /\ IF FillsVtotal(loc.pvspin, loc.nin)
       THEN /\ loc' = [loc EXCEPT !.vtotal =
                         Light(VtotalRows(loc.pvspin, loc.pvorbit_helio, loc.pvorbit_bary,
                                          loc.pvlsr, loc.nin), args.light)]
            /\ pc' = "pdb"
            /\ err' = err
       ELSE /\ loc' = loc
            /\ pc' = "failed"
            /\ err' = "ValueError"
    /\ UNCHANGED << args, calls, printed, ret, p_pc, p_args, p_ret >>

\* Line 146, pdb.set_trace(): the call stands at the debugger's prompt.  The
\* user continues, and line 147 returns vtotal ...
PdbContinue ==
    /\ pc = "pdb"
    /\ ret' = Some(loc.vtotal)
    /\ pc' = "returned"
    /\ UNCHANGED << args, loc, calls, printed, err, p_pc, p_args, p_ret >>

\* ... or the user quits the debugger, which raises BdbQuit.
PdbQuit ==
    /\ pc = "pdb"
    /\ pc' = "failed"
    /\ err' = "BdbQuit"
    /\ UNCHANGED << args, loc, calls, printed, ret, p_pc, p_args, p_ret >>

\* precess(ra, dec, equinox1, equinox2, FK4, radian) is called on its own:
\* both angles floats, or both arrays of any lengths.
PrecessCall ==
    /\ pc = "idle" /\ p_pc = "idle"
    /\ \E kind \in {"scalar", "array"}, equinox1 \in Equinoxes, equinox2 \in Equinoxes,
          FK4 \in BOOLEAN, radian \in BOOLEAN :
         \E ra \in IF kind = "scalar" THEN Scalars(PRaDegs) ELSE Arrays(PRaDegs),
            dec \in IF kind = "scalar" THEN Scalars(PDecDegs) ELSE Arrays(PDecDegs) :
              /\ p_args' = [ra |-> InUnit(ra, radian), dec |-> InUnit(dec, radian),
                            equinox1 |-> equinox1, equinox2 |-> equinox2,
                            FK4 |-> FK4, radian |-> radian]
              /\ p_ret' = precess(InUnit(ra, radian), InUnit(dec, radian),
                                  equinox1, equinox2, FK4, radian)
    /\ p_pc' = "done"
    /\ UNCHANGED << pc, args, loc, calls, printed, ret, err >>

Next ==
    \/ Call
    \/ SourceSection
    \/ OrbitPass
    \/ LsrSection
    \/ SpinSection
    \/ CombineSection
    \/ PdbContinue
    \/ PdbQuit
    \/ PrecessCall

Spec == Init /\ [][Next]_vars

\* The returned matrix is the one the sections compute in sequence.
RetIsUgdoppler ==
    pc = "returned" =>
        ret = Some(ugdoppler(args.ra, args.dec, args.julday, args.nlat, args.wlong, args.light))

\* What the caller holds after the call: the value of "return vtotal", and
\* the objects it passed as obspos_deg and lst_mean, which the function
\* rebinds as local names and never changes.
Delivered == [vtotal |-> ret, obspos_deg |-> args.obspos_deg, lst_mean |-> args.lst_mean]

\* ------------------------------------------------------------ claims
\* A full turn in the unit of the precess call.
FullTurn(radian) == IF radian THEN 2 * pi ELSE 360 * DegUnit

\* Agreement of two angles within the tolerance of the model.
Tol == 10 ^ 2
Close(a, b) == Abs(a - b) <= Tol

\* C1: every right ascension precess returns lies in [0, 360) degrees, or
\* in [0, 2 pi) radians when radian is set; none is negative.
C1_RaInFullTurn ==
    (p_pc = "done" /\ p_ret.status = "ok") =>
        \A i \in DOMAIN p_ret.ra :
            0 <= p_ret.ra[i] /\ p_ret.ra[i] < FullTurn(p_args.radian)

\* The ra, dec and julday arrays of the call do not all have one length.
Mismatch ==
    /\ pc # "idle"
    /\ HasLen(args.ra) /\ HasLen(args.dec) /\ HasLen(args.julday)
    /\ ~(Len(args.ra.v) = Len(args.dec.v) /\ Len(args.dec.v) = Len(args.julday.v))

\* C2: a call with arrays of unequal lengths fails before any direction
\* cosine is computed and before baryvel, precess or getLST is invoked, and
\* never returns a result.
C2_MismatchFailsFast ==
    Mismatch =>
        /\ pc \in {"source", "failed"}
        /\ loc.xxsource = <<>>
        /\ calls = <<>>
        /\ ret = None

\* C3: whenever nlat and wlong are both given, whatever their values, the
\* observer used is [nlat, wlong]; Campbell Hall is used only otherwise.
C3_SuppliedLocationUsed ==
    loc.obspos_deg # <<>> =>
        loc.obspos_deg =
            IF args.nlat # None /\ args.wlong # None
            THEN << args.nlat[1], args.wlong[1] >>
            ELSE << northlat, westlong >>

\* The three arrays of the call have one length.
EqualLengths ==
    /\ HasLen(args.ra) /\ HasLen(args.dec) /\ HasLen(args.julday)
    /\ Len(args.ra.v) = Len(args.dec.v)
    /\ Len(args.dec.v) = Len(args.julday.v)

\* The four components of sample i as the claim states them, from the
\* arguments of the call and pvspin.
C4_Components(i) ==
    LET xx == XXSourceColumn(args.ra, args.dec, i)
        vel == baryvel(args.julday.v[i], 2000)
        pvspin == At(loc.pvspin, i)
        pvorbit_helio == Dot3(vel.vvorbit, xx)
        pvorbit_bary == Dot3(vel.velb, xx)
        pvlsr == Dot3([k \in 1 .. 3 |-> 20 * xxlsr[k]], xx)
    IN  << -pvspin,
           -pvspin - pvorbit_helio,
           -pvspin - pvorbit_bary,
           -pvspin - pvorbit_bary - pvlsr >>

\* C4: for every sample i of a call that returns, the four returned
\* components are -pvspin, -pvspin - pvorbit_helio, -pvspin - pvorbit_bary and
\* -pvspin - pvorbit_bary - pvlsr, each divided by c when light is set; the
\* projections are the dot products of the source direction with the
\* heliocentric velocity, the barycentric velocity and 20 km/s along the apex.
C4_FourComponents ==
    pc = "returned" =>
        \A i \in 1 .. loc.nin : \A r \in 1 .. 4 :
            ret[1][r][i] = IF args.light THEN OverC(C4_Components(i)[r])
                           ELSE C4_Components(i)[r]

\* A call of two samples has returned velocities in km/s, and every term of
\* the first sample's components counts: the four components differ.
C4_Witness ==
    /\ pc = "returned"
    /\ EqualLengths
    /\ loc.nin = 2
    /\ ~args.light
    /\ At(loc.pvspin, 1) # 0
    /\ loc.pvlsr[1] # 0
    /\ loc.pvorbit_helio[1] # 0
    /\ loc.pvorbit_helio[1] # loc.pvorbit_bary[1]
    /\ Cardinality({ret[1][r][1] : r \in 1 .. 4}) = 4

\* The matrix returned for the batch that holds sample i alone.
C5_Alone(i) ==
    ugdoppler(Array(<< args.ra.v[i] >>), Array(<< args.dec.v[i] >>),
              Array(<< args.julday.v[i] >>), args.nlat, args.wlong, args.light)

\* C5: the matrix a call returns is the one its sections compute from the
\* arguments, and column i of the matrix returned for a batch of N samples
\* is the column returned for the batch that holds sample i alone, with the
\* same observer and light flag.
C5_BatchConsistency ==
    (pc = "returned" /\ EqualLengths) =>
        /\ ret = Some(ugdoppler(args.ra, args.dec, args.julday,
                                args.nlat, args.wlong, args.light))
        /\ \A i \in 1 .. loc.nin : \A r \in 1 .. 4 :
               ret[1][r][i] = C5_Alone(i)[r][1]

\* A batch of two samples that differ in right ascension and in Julian day
\* has returned two different columns.
C5_Witness ==
    /\ pc = "returned"
    /\ EqualLengths
    /\ loc.nin = 2
    /\ args.ra.v[1] # args.ra.v[2]
    /\ args.julday.v[1] # args.julday.v[2]
    /\ \A r \in 1 .. 4 : ret[1][r][1] # ret[1][r][2]

\* C6: no call waits at a debugger prompt, and a call ends only by
\* returning or by failing on its input.
C6_NoDebuggerPause == pc # "pdb" /\ err # "BdbQuit"

\* C7: besides the matrix, the caller receives the observer location that
\* was used and the sidereal time that was computed.
C7_SecondaryOutputs ==
    pc = "returned" =>
        /\ Delivered.vtotal = Some(loc.vtotal)
        /\ Delivered.obspos_deg = Some(loc.obspos_deg)
        /\ Delivered.lst_mean = Some(loc.lst_mean)

\* The number of elements of an argument of precess.
Count(a) == IF HasLen(a) THEN Len(a.v) ELSE 1

\* The result of precess for element i of the call alone.
C8_Alone(i) ==
    precess(Scalar(At(p_args.ra, i)), Scalar(At(p_args.dec, i)),
            p_args.equinox1, p_args.equinox2, p_args.FK4, p_args.radian)

\* C8: for a pair of floats or a pair of arrays of one length N, in degrees
\* and in radians, precess returns N right ascensions and N declinations,
\* element i being what precess returns for element i alone.
C8_ElementwiseBothUnits ==
    (p_pc = "done" /\ Shape(p_args.ra) = Shape(p_args.dec)) =>
        /\ p_ret.status = "ok"
        /\ Len(p_ret.ra) = Count(p_args.ra)
        /\ Len(p_ret.dec) = Count(p_args.ra)
        /\ \A i \in 1 .. Count(p_args.ra) :
               /\ p_ret.ra[i] = C8_Alone(i).ra[1]
               /\ p_ret.dec[i] = C8_Alone(i).dec[1]

\* C9: with equal equinoxes, in either frame and either unit, a call that
\* returns gives back the right ascension and declination it was given.
C9_IdentityPrecession ==
    (p_pc = "done" /\ p_ret.status = "ok" /\ p_args.equinox1 = p_args.equinox2) =>
        \A i \in DOMAIN p_ret.ra :
            /\ Close(p_ret.ra[i], At(p_args.ra, i))
            /\ Close(p_ret.dec[i], At(p_args.dec, i))

\* C10: a call with float ra, dec and julday is a batch of one sample: it
\* does not fail, nin is 1, and when it has returned baryvel was invoked once,
\* with that Julian day, and the matrix holds one column.
C10_ScalarIsBatchOfOne ==
    (pc # "idle" /\ ~HasLen(args.ra) /\ ~HasLen(args.dec) /\ ~HasLen(args.julday)) =>
        /\ pc # "failed"
        /\ pc # "source" => loc.nin = 1
        /\ pc = "returned" =>
             /\ SelectSeq(calls, LAMBDA c : c.fn = "baryvel")
                    = << [fn |-> "baryvel", arg |-> args.julday] >>
             /\ \A r \in 1 .. 4 : Len(ret[1][r]) = 1

====
